---- MODULE Spec2Model ----
(***************************************************************************)
(* The telemetry broadcast hub of src/dashboard.py.                        *)
(*                                                                         *)
(* One thread per inbound HTTP request: a producer thread runs             *)
(* receive_data (POST /data) and, inside it, broadcast_data; a client      *)
(* thread runs the generator event_stream of stream_events (GET /events).  *)
(* The shared state is the list sse_clients, guarded by sse_lock; every    *)
(* client owns one queue.Queue, which has its own internal mutex, so a     *)
(* put_nowait and a get on it are atomic steps that need not hold          *)
(* sse_lock.                                                               *)
(*                                                                         *)
(* The source creates the queues with maxsize=100.  The model is checked   *)
(* with the capacity scaled down to QueueMaxsize; no definition below      *)
(* depends on its value other than through QueueMaxsize.                   *)
(*                                                                         *)
(* Two sequential programs follow the hub, each with its own               *)
(* specification: the role selection of src/launcher.py (get_role, main)   *)
(* and connect_obd of src/car.py.  While one part runs the variables of    *)
(* the others stay as they were initialised.                               *)
(***************************************************************************)
EXTENDS Integers, Sequences, FiniteSets, TLC

\* Threads serving POST /data, and the GET /events connections (each one
\* creates its own queue object, so a client names its queue).
Producers == {"p1", "p2"}
Clients == {"c1", "c2"}

\* Bounds of the model.
QueueMaxsize == 1
MaxRequests == 2
MaxKeepAlive == 1

VARIABLES
    sse_clients,          \* the list sse_clients: a sequence of clients (their queues)
    sse_lock,             \* "free", or the producer thread inside `with sse_lock`
    client_queue,         \* client_queue[c]: the frames held by c's queue.Queue
    cpc,                  \* cpc[c]: where the generator event_stream of c stands
    sent,                 \* sent[c]: the frames the generator has yielded so far
    ppc,                  \* ppc[p]: where the handler receive_data of p stands
    req,                  \* req[p]: the request p is serving ([id, body, data])
    scan,                 \* scan[p]: the index i of the for loop of broadcast_data
    disconnected_clients, \* disconnected_clients[p]: the local list of broadcast_data
    requests,             \* history: requests[r] = [body, status, publishes] of request r
    published,            \* history: the data of the publishes, in critical-section order
    regAt,                \* history: Len(published) when c was appended to sse_clients
    removedBy,            \* history: removedBy[c] = the removals of c from sse_clients
    cleanups,             \* history: cleanups[c] = executions of c's finally block
    local_role_file,      \* launcher.py: the file LOCAL_ROLE_FILE as the launcher finds it
    prod_role_file,       \* launcher.py: the file PROD_ROLE_FILE as the launcher finds it
    lpc,                  \* launcher.py: where main stands
    role,                 \* launcher.py: role, as returned by get_role
    app_type,             \* launcher.py: app_type, as returned by get_role
    app_main,             \* launcher.py: the module whose main was imported and called
    exit_status,          \* launcher.py: the exit status of the process, once it has exited
    port,                 \* car.py: the argument port of connect_obd
    baudrate,             \* car.py: the argument baudrate of connect_obd
    adapter,              \* car.py: adapter[b] = what obd.OBD(port, baudrate=b) does
    opc,                  \* car.py: where connect_obd stands
    baudrates_to_try,     \* car.py: the local list baudrates_to_try
    tried,                \* history: the baud rates obd.OBD was called with, in order
    connection            \* car.py: the value connect_obd returns

hubVars == <<sse_clients, sse_lock, client_queue, cpc, sent, ppc, req, scan,
             disconnected_clients, requests, published, regAt, removedBy,
             cleanups>>

launcherVars == <<local_role_file, prod_role_file, lpc, role, app_type, app_main,
                  exit_status>>

obdVars == <<port, baudrate, adapter, opc, baudrates_to_try, tried, connection>>

vars == <<hubVars, launcherVars, obdVars>>

producerVars == <<ppc, req, scan, disconnected_clients>>

Range(s) == {s[i] : i \in 1..Len(s)}

-----------------------------------------------------------------------------
(* Request bodies and request.get_json()                                    *)

\* The bodies a POST /data may carry (all with a JSON content type):
\* a JSON object, a JSON value that is not an object, the JSON literal
\* null, and text that is not JSON.
Bodies == {"object", "array", "null", "not json"}

NoData == [shape |-> "none", id |-> 0]

\* the locals of a handler thread that serves no request
NoRequest == [id |-> 0, body |-> "null", data |-> NoData]

\* request.get_json() (flask): the parsed value of a JSON body, whatever its
\* shape; None for the literal null; for a body that does not parse it calls
\* on_json_loading_failed, which raises werkzeug's BadRequest (an
\* HTTPException, not a json.JSONDecodeError).
get_json(body, id) ==
    CASE body = "object"   -> [raised |-> "none", data |-> [shape |-> "object", id |-> id]]
      [] body = "array"    -> [raised |-> "none", data |-> [shape |-> "array", id |-> id]]
      [] body = "null"     -> [raised |-> "none", data |-> NoData]
      [] body = "not json" -> [raised |-> "BadRequest", data |-> NoData]

\* faulty variant: an except clause answers as if the request had succeeded
except_status_success(raised) == 200

\* The except clauses of receive_data: the status answered for an exception.
except_status(raised) ==
    IF raised = "JSONDecodeError" THEN 400 ELSE 500

-----------------------------------------------------------------------------
(* Frames                                                                   *)

\* message = f"data: {json.dumps(data)}\n\n"
message(data) == [line |-> "data", json |-> data]

\* f"data: {json.dumps({'type': 'connected', ...})}\n\n"
connected_message == [line |-> "data", json |-> [shape |-> "connected", id |-> 0]]

\* ": keep-alive\n\n"
keep_alive == [line |-> "comment", json |-> [shape |-> "keep-alive", id |-> 0]]

-----------------------------------------------------------------------------
(* queue.Queue                                                              *)

\* faulty variant: the capacity test is off by one
Full_off_by_one(q) == Len(q) > QueueMaxsize

\* Queue.full(): maxsize > 0 and qsize() >= maxsize
Full(q) == Len(q) >= QueueMaxsize

\* faulty variant: the item is lost
put_nowait_lost(q, item) == q

\* Queue.put_nowait(item) on a queue that is not full
put_nowait(q, item) == Append(q, item)

\* faulty variant: the item got stays in the queue
get_rest_keep(q) == q

\* faulty variant: the generator yields the connection message again instead
\* of the item it got
get_item_stale(q) == [line |-> "data", json |-> [shape |-> "connected", id |-> 0]]

\* Queue.get(): the oldest item, and the queue without it
get_item(q) == Head(q)
get_rest(q) == Tail(q)

-----------------------------------------------------------------------------
(* list operations on sse_clients                                           *)

\* faulty variant: the pop ignores its index and takes the first element
pop_first(list, i) == SubSeq(list, 2, Len(list))

\* list.pop(i), i counted from 1
pop(list, i) == SubSeq(list, 1, i - 1) \o SubSeq(list, i + 1, Len(list))

\* faulty variant: the indices are popped in ascending order, so that every pop
\* shifts the elements the later indices name
RECURSIVE pop_forward(_, _)
pop_forward(list, indices) ==
    IF indices = <<>> THEN list
    ELSE pop_forward(pop(list, indices[1]), Tail(indices))

\* faulty variant: the disconnected clients are not popped
pop_none(list, indices) == list

\* for i in reversed(disconnected_clients): sse_clients.pop(i)
RECURSIVE pop_reversed(_, _)
pop_reversed(list, indices) ==
    IF indices = <<>> THEN list
    ELSE pop_reversed(pop(list, indices[Len(indices)]),
                      SubSeq(indices, 1, Len(indices) - 1))

\* the first index of x in list (0 when absent)
index_of(list, x) ==
    IF x \in Range(list)
    THEN CHOOSE i \in 1..Len(list) : list[i] = x /\ \A j \in 1..(i - 1) : list[j] # x
    ELSE 0

\* faulty variant: finally leaves the client in the list
remove_nothing(list, x) == list

\* faulty variant: a client that is no longer in the list costs the last one its place
remove_or_pop_last(list, x) ==
    IF x \in Range(list) THEN pop(list, index_of(list, x))
    ELSE SubSeq(list, 1, Len(list) - 1)

\* if client_queue in sse_clients: sse_clients.remove(client_queue)
remove_if_present(list, x) ==
    IF x \in Range(list) THEN pop(list, index_of(list, x)) ELSE list

\* faulty variant: the lock is not taken
lock_ignored == TRUE

\* `with sse_lock:` may be entered
lock_available == sse_lock = "free"

-----------------------------------------------------------------------------
\* the launcher has not been run
LauncherOff ==
    /\ local_role_file = [kind |-> "missing"]
    /\ prod_role_file = [kind |-> "missing"]
    /\ lpc = "off"
    /\ role = <<>>
    /\ app_type = <<>>
    /\ app_main = "none"
    /\ exit_status = 0

\* connect_obd has not been called
ObdOff ==
    /\ port = "None"
    /\ baudrate = <<>>
    /\ adapter = <<>>
    /\ opc = "off"
    /\ baudrates_to_try = <<>>
    /\ tried = <<>>
    /\ connection = [connected |-> FALSE, baudrate |-> 0]

\* the hub after the module is loaded: no client, no request
InitHub ==
    /\ sse_clients = <<>>
    /\ sse_lock = "free"
    /\ client_queue = [c \in Clients |-> <<>>]
    /\ cpc = [c \in Clients |-> "new"]
    /\ sent = [c \in Clients |-> <<>>]
    /\ ppc = [p \in Producers |-> "idle"]
    /\ req = [p \in Producers |-> NoRequest]
    /\ scan = [p \in Producers |-> 0]
    /\ disconnected_clients = [p \in Producers |-> <<>>]
    /\ requests = <<>>
    /\ published = <<>>
    /\ regAt = [c \in Clients |-> 0]
    /\ removedBy = [c \in Clients |-> <<>>]
    /\ cleanups = [c \in Clients |-> 0]

Init == InitHub /\ LauncherOff /\ ObdOff

\* history: who took c out of sse_clients in the step from `old` to `new`
note_removals(old, new, who) ==
    [c \in Clients |->
        IF c \in Range(old) /\ c \notin Range(new)
        THEN Append(removedBy[c], who) ELSE removedBy[c]]

-----------------------------------------------------------------------------
(* POST /data: receive_data and broadcast_data, run by producer thread p    *)

\* receive_data up to the call of broadcast_data: get_json, the None check
\* and the except clauses.  A request that fails is answered at once.  The
\* body is one of `bodies`, and the run serves at most `limit` requests.
receive_data(p, bodies, limit) ==
    /\ ppc[p] = "idle"
    /\ Len(requests) < limit
    /\ \E body \in bodies :
         LET id == Len(requests) + 1
             got == get_json(body, id)
         IN  IF got.raised # "none"
             THEN /\ requests' = Append(requests,
                        [body |-> body, status |-> except_status(got.raised)])
                  /\ UNCHANGED <<ppc, req>>
             ELSE IF got.data = NoData
             THEN /\ requests' = Append(requests, [body |-> body, status |-> 400])
                  /\ UNCHANGED <<ppc, req>>
             ELSE /\ requests' = Append(requests, [body |-> body, status |-> 0])
                  /\ ppc' = [ppc EXCEPT ![p] = "broadcast"]
                  /\ req' = [req EXCEPT ![p] = [id |-> id, body |-> body, data |-> got.data]]
    /\ UNCHANGED <<sse_clients, sse_lock, client_queue, cpc, sent, scan,
                   disconnected_clients, published, regAt, removedBy,
                   cleanups>>
    /\ UNCHANGED <<launcherVars, obdVars>>

\* broadcast_data: `with sse_lock:` is entered, disconnected_clients = []
broadcast_enter(p) ==
    /\ ppc[p] = "broadcast"
    /\ lock_available
    /\ sse_lock' = p
    /\ ppc' = [ppc EXCEPT ![p] = "scan"]
    /\ scan' = [scan EXCEPT ![p] = 1]
    /\ disconnected_clients' = [disconnected_clients EXCEPT ![p] = <<>>]
    /\ published' = Append(published, req[p].data)
    /\ UNCHANGED <<sse_clients, client_queue, cpc, sent, req, requests, regAt, removedBy, cleanups>>
    /\ UNCHANGED <<launcherVars, obdVars>>

\* faulty variant: the loop uses a blocking put, which waits for a free slot
broadcast_put_blocking(p) ==
    /\ ppc[p] = "scan"
    /\ scan[p] <= Len(sse_clients)
    /\ ~Full(client_queue[sse_clients[scan[p]]])
    /\ client_queue' = [client_queue EXCEPT
                          ![sse_clients[scan[p]]] = put_nowait(@, message(req[p].data))]
    /\ scan' = [scan EXCEPT ![p] = @ + 1]
    /\ UNCHANGED <<sse_clients, sse_lock, cpc, sent, ppc, req, requests, published,
                   regAt, removedBy, cleanups, disconnected_clients>>
    /\ UNCHANGED <<launcherVars, obdVars>>

\* one iteration of `for i, client_queue in enumerate(sse_clients)`
broadcast_put(p) ==
    /\ ppc[p] = "scan"
    /\ scan[p] <= Len(sse_clients)
    /\ LET i == scan[p]
           c == sse_clients[i]
       IN  IF Full(client_queue[c])
           THEN /\ disconnected_clients' =
                      [disconnected_clients EXCEPT ![p] = Append(@, i)]
                /\ UNCHANGED client_queue
           ELSE /\ client_queue' = [client_queue EXCEPT
                                      ![c] = put_nowait(@, message(req[p].data))]
                /\ UNCHANGED disconnected_clients
    /\ scan' = [scan EXCEPT ![p] = @ + 1]
    /\ UNCHANGED <<sse_clients, sse_lock, cpc, sent, ppc, req, requests, published,
                   regAt, removedBy, cleanups>>
    /\ UNCHANGED <<launcherVars, obdVars>>

\* faulty variant: when some queue was found full, every client is dropped
broadcast_evict_sweep(p) ==
    /\ ppc[p] = "scan"
    /\ scan[p] > Len(sse_clients)
    /\ LET left == IF disconnected_clients[p] = <<>> THEN sse_clients ELSE <<>>
       IN  /\ sse_clients' = left
           /\ removedBy' = note_removals(sse_clients, left, "broadcast_data")
    /\ sse_lock' = "free"
    /\ ppc' = [ppc EXCEPT ![p] = "return"]
    /\ scan' = [scan EXCEPT ![p] = 0]
    /\ disconnected_clients' = [disconnected_clients EXCEPT ![p] = <<>>]
    /\ UNCHANGED <<client_queue, cpc, sent, req, requests, published, regAt, cleanups>>
    /\ UNCHANGED <<launcherVars, obdVars>>

\* faulty variant: the queues of the popped clients are emptied as well
broadcast_evict_drain(p) ==
    /\ ppc[p] = "scan"
    /\ scan[p] > Len(sse_clients)
    /\ LET left == pop_reversed(sse_clients, disconnected_clients[p])
       IN  /\ sse_clients' = left
           /\ removedBy' = note_removals(sse_clients, left, "broadcast_data")
           /\ client_queue' = [c \in Clients |->
                                 IF c \in Range(sse_clients) /\ c \notin Range(left)
                                 THEN <<>> ELSE client_queue[c]]
    /\ sse_lock' = "free"
    /\ ppc' = [ppc EXCEPT ![p] = "return"]
    /\ scan' = [scan EXCEPT ![p] = 0]
    /\ disconnected_clients' = [disconnected_clients EXCEPT ![p] = <<>>]
    /\ UNCHANGED <<cpc, sent, req, requests, published, regAt, cleanups>>
    /\ UNCHANGED <<launcherVars, obdVars>>

\* faulty variant: the generators of the popped clients are ended
broadcast_evict_notify(p) ==
    /\ ppc[p] = "scan"
    /\ scan[p] > Len(sse_clients)
    /\ LET left == pop_reversed(sse_clients, disconnected_clients[p])
       IN  /\ sse_clients' = left
           /\ removedBy' = note_removals(sse_clients, left, "broadcast_data")
           /\ cpc' = [c \in Clients |->
                        IF c \in Range(sse_clients) /\ c \notin Range(left)
                           /\ cpc[c] = "waiting"
                        THEN "finally" ELSE cpc[c]]
    /\ sse_lock' = "free"
    /\ ppc' = [ppc EXCEPT ![p] = "return"]
    /\ scan' = [scan EXCEPT ![p] = 0]
    /\ disconnected_clients' = [disconnected_clients EXCEPT ![p] = <<>>]
    /\ UNCHANGED <<client_queue, sent, req, requests, published, regAt, cleanups>>
    /\ UNCHANGED <<launcherVars, obdVars>>

\* the loop has ended: the pops of the disconnected clients, and the lock
\* is left
broadcast_evict(p) ==
    /\ ppc[p] = "scan"
    /\ scan[p] > Len(sse_clients)
    /\ LET left == pop_reversed(sse_clients, disconnected_clients[p])
       IN  /\ sse_clients' = left
           /\ removedBy' = note_removals(sse_clients, left, "broadcast_data")
    /\ sse_lock' = "free"
    /\ ppc' = [ppc EXCEPT ![p] = "return"]
    /\ scan' = [scan EXCEPT ![p] = 0]
    /\ disconnected_clients' = [disconnected_clients EXCEPT ![p] = <<>>]
    /\ UNCHANGED <<client_queue, cpc, sent, req, requests, published, regAt, cleanups>>
    /\ UNCHANGED <<launcherVars, obdVars>>

\* return {"status": "success", ...}, 200
receive_data_return(p) ==
    /\ ppc[p] = "return"
    /\ requests' = [requests EXCEPT ![req[p].id].status = 200]
    /\ ppc' = [ppc EXCEPT ![p] = "idle"]
    /\ req' = [req EXCEPT ![p] = NoRequest]
    /\ UNCHANGED <<sse_clients, sse_lock, client_queue, cpc, sent, scan,
                   disconnected_clients, published, regAt, removedBy,
                   cleanups>>
    /\ UNCHANGED <<launcherVars, obdVars>>

\* the keep-alive frames yielded so far, over all clients (bounded by
\* MaxKeepAlive: the idle timeouts that expire in a run)
RECURSIVE CountKeepAlives(_)
CountKeepAlives(frames) ==
    IF frames = <<>> THEN 0
    ELSE (IF Head(frames) = keep_alive THEN 1 ELSE 0) + CountKeepAlives(Tail(frames))

RECURSIVE SumKeepAlives(_)
SumKeepAlives(cs) ==
    IF cs = {} THEN 0
    ELSE LET c == CHOOSE x \in cs : TRUE
         IN  CountKeepAlives(sent[c]) + SumKeepAlives(cs \ {c})

KeepAlivesSent == SumKeepAlives(Clients)

-----------------------------------------------------------------------------
(* GET /events: the generator event_stream, run by client thread c          *)

\* faulty variant: the new queue starts with the frame of the latest publish
event_stream_start_replay(c) ==
    /\ cpc[c] = "new"
    /\ lock_available
    /\ sse_clients' = Append(sse_clients, c)
    /\ client_queue' = [client_queue EXCEPT
                          ![c] = IF published = <<>> THEN <<>>
                                 ELSE <<message(published[Len(published)])>>]
    /\ regAt' = [regAt EXCEPT ![c] = Len(published)]
    /\ cpc' = [cpc EXCEPT ![c] = "connected"]
    /\ UNCHANGED <<sse_lock, sent, producerVars, requests, published,
                   removedBy, cleanups>>
    /\ UNCHANGED <<launcherVars, obdVars>>

\* faulty variant: the new client replaces the list instead of joining it
event_stream_start_alone(c) ==
    /\ cpc[c] = "new"
    /\ lock_available
    /\ sse_clients' = <<c>>
    /\ regAt' = [regAt EXCEPT ![c] = Len(published)]
    /\ cpc' = [cpc EXCEPT ![c] = "connected"]
    /\ UNCHANGED <<sse_lock, client_queue, sent, producerVars, requests, published,
                   removedBy, cleanups>>
    /\ UNCHANGED <<launcherVars, obdVars>>

\* faulty variant: the new client is appended twice
event_stream_start_twice(c) ==
    /\ cpc[c] = "new"
    /\ lock_available
    /\ sse_clients' = Append(Append(sse_clients, c), c)
    /\ regAt' = [regAt EXCEPT ![c] = Len(published)]
    /\ cpc' = [cpc EXCEPT ![c] = "connected"]
    /\ UNCHANGED <<sse_lock, client_queue, sent, producerVars, requests, published,
                   removedBy, cleanups>>
    /\ UNCHANGED <<launcherVars, obdVars>>

\* the queue is created and appended to sse_clients under the lock
event_stream_start(c) ==
    /\ cpc[c] = "new"
    /\ lock_available
    /\ sse_clients' = Append(sse_clients, c)
    /\ regAt' = [regAt EXCEPT ![c] = Len(published)]
    /\ cpc' = [cpc EXCEPT ![c] = "connected"]
    /\ UNCHANGED <<sse_lock, client_queue, sent, producerVars, requests, published,
                   removedBy, cleanups>>
    /\ UNCHANGED <<launcherVars, obdVars>>

\* faulty variant: the loop is entered without the initial connection message
yield_connected_skipped(c) ==
    /\ cpc[c] = "connected"
    /\ cpc' = [cpc EXCEPT ![c] = "waiting"]
    /\ UNCHANGED <<sse_clients, sse_lock, client_queue, sent, producerVars, requests,
                   published, regAt, removedBy, cleanups>>
    /\ UNCHANGED <<launcherVars, obdVars>>

\* yield of the initial connection message
yield_connected(c) ==
    /\ cpc[c] = "connected"
    /\ sent' = [sent EXCEPT ![c] = Append(@, connected_message)]
    /\ cpc' = [cpc EXCEPT ![c] = "waiting"]
    /\ UNCHANGED <<sse_clients, sse_lock, client_queue, producerVars, requests,
                   published, regAt, removedBy, cleanups>>
    /\ UNCHANGED <<launcherVars, obdVars>>

\* client_queue.get(timeout=30) returns a message, which is yielded
yield_message(c) ==
    /\ cpc[c] = "waiting"
    /\ client_queue[c] # <<>>
    /\ sent' = [sent EXCEPT ![c] = Append(@, get_item(client_queue[c]))]
    /\ client_queue' = [client_queue EXCEPT ![c] = get_rest(@)]
    /\ UNCHANGED <<sse_clients, sse_lock, cpc, producerVars, requests, published,
                   regAt, removedBy, cleanups>>
    /\ UNCHANGED <<launcherVars, obdVars>>

\* faulty variant: the keep-alive is yielded whenever 30 s have passed, whether
\* or not the queue holds a message
yield_keep_alive_on_timer(c) ==
    /\ cpc[c] = "waiting"
    /\ KeepAlivesSent < MaxKeepAlive
    /\ sent' = [sent EXCEPT ![c] = Append(@, keep_alive)]
    /\ UNCHANGED <<sse_clients, sse_lock, client_queue, cpc, producerVars, requests,
                   published, regAt, removedBy, cleanups>>
    /\ UNCHANGED <<launcherVars, obdVars>>

\* client_queue.get(timeout=30) raises queue.Empty: the keep-alive is yielded
yield_keep_alive(c) ==
    /\ cpc[c] = "waiting"
    /\ client_queue[c] = <<>>
    /\ KeepAlivesSent < MaxKeepAlive
    /\ sent' = [sent EXCEPT ![c] = Append(@, keep_alive)]
    /\ UNCHANGED <<sse_clients, sse_lock, client_queue, cpc, producerVars, requests,
                   published, regAt, removedBy, cleanups>>
    /\ UNCHANGED <<launcherVars, obdVars>>

\* the generator is closed at a yield (the viewer is gone, or a send to it
\* failed and the server closes the response): GeneratorExit is raised at
\* the yield, the except clause logs it, and finally is next
event_stream_close(c) ==
    /\ cpc[c] = "waiting"
    /\ cpc' = [cpc EXCEPT ![c] = "finally"]
    /\ UNCHANGED <<sse_clients, sse_lock, client_queue, sent, producerVars, requests,
                   published, regAt, removedBy, cleanups>>
    /\ UNCHANGED <<launcherVars, obdVars>>

\* any other exception leaves the try block: no except clause takes it, and
\* finally is next
event_stream_raise(c) ==
    /\ cpc[c] = "waiting"
    /\ cpc' = [cpc EXCEPT ![c] = "finally"]
    /\ UNCHANGED <<sse_clients, sse_lock, client_queue, sent, producerVars, requests,
                   published, regAt, removedBy, cleanups>>
    /\ UNCHANGED <<launcherVars, obdVars>>

\* faulty variant: after the cleanup the loop is resumed
event_stream_finally_resume(c) ==
    /\ cpc[c] = "finally"
    /\ lock_available
    /\ LET left == remove_if_present(sse_clients, c)
       IN  /\ sse_clients' = left
           /\ removedBy' = note_removals(sse_clients, left, "event_stream")
    /\ cleanups' = [cleanups EXCEPT ![c] = @ + 1]
    /\ cpc' = [cpc EXCEPT ![c] = "waiting"]
    /\ UNCHANGED <<sse_lock, client_queue, sent, producerVars, requests, published,
                   regAt>>
    /\ UNCHANGED <<launcherVars, obdVars>>

\* finally: the client is removed from the list under the lock
event_stream_finally(c) ==
    /\ cpc[c] = "finally"
    /\ lock_available
    /\ LET left == remove_if_present(sse_clients, c)
       IN  /\ sse_clients' = left
           /\ removedBy' = note_removals(sse_clients, left, "event_stream")
    /\ cleanups' = [cleanups EXCEPT ![c] = @ + 1]
    /\ cpc' = [cpc EXCEPT ![c] = "closed"]
    /\ UNCHANGED <<sse_lock, client_queue, sent, producerVars, requests, published,
                   regAt>>
    /\ UNCHANGED <<launcherVars, obdVars>>

-----------------------------------------------------------------------------
\* The hub under concurrent producers: every request carries a JSON object.
Next ==
    \/ \E p \in Producers : receive_data(p, {"object"}, MaxRequests)
    \/ \E p \in Producers : broadcast_enter(p)
    \/ \E p \in Producers : broadcast_put(p)
    \/ \E p \in Producers : broadcast_evict(p)
    \/ \E p \in Producers : receive_data_return(p)
    \/ \E c \in Clients : event_stream_start(c)
    \/ \E c \in Clients : yield_connected(c)
    \/ \E c \in Clients : yield_message(c)
    \/ \E c \in Clients : yield_keep_alive(c)
    \/ \E c \in Clients : event_stream_close(c)
    \/ \E c \in Clients : event_stream_raise(c)
    \/ \E c \in Clients : event_stream_finally(c)

Spec == Init /\ [][Next]_vars

\* One handler thread publishing JSON objects, one request more than Spec
\* serves: an eviction can be followed by further publishes.
SerialRequests == MaxRequests + 1

NextSerial ==
    \/ receive_data("p1", {"object"}, SerialRequests)
    \/ broadcast_enter("p1")
    \/ broadcast_put("p1")
    \/ broadcast_evict("p1")
    \/ receive_data_return("p1")
    \/ \E c \in Clients : event_stream_start(c)
    \/ \E c \in Clients : yield_connected(c)
    \/ \E c \in Clients : yield_message(c)
    \/ \E c \in Clients : yield_keep_alive(c)
    \/ \E c \in Clients : event_stream_close(c)
    \/ \E c \in Clients : event_stream_raise(c)
    \/ \E c \in Clients : event_stream_finally(c)

SpecSerial == Init /\ [][NextSerial]_vars

\* The ingestion endpoint: one handler thread, every kind of request body.
NextIngest ==
    \/ receive_data("p1", Bodies, MaxRequests)
    \/ broadcast_enter("p1")
    \/ broadcast_put("p1")
    \/ broadcast_evict("p1")
    \/ receive_data_return("p1")
    \/ \E c \in Clients : event_stream_start(c)
    \/ \E c \in Clients : yield_connected(c)
    \/ \E c \in Clients : yield_message(c)
    \/ \E c \in Clients : yield_keep_alive(c)
    \/ \E c \in Clients : event_stream_close(c)
    \/ \E c \in Clients : event_stream_raise(c)
    \/ \E c \in Clients : event_stream_finally(c)

SpecIngest == Init /\ [][NextIngest]_vars

-----------------------------------------------------------------------------
(* Observations the properties are stated on                                *)

\* a frame of a published event (neither the connected nor a keep-alive frame)
IsTelemetry(frame) == frame.line = "data" /\ frame.json.shape \in {"object", "array"}

\* the telemetry frames c's generator has yielded, in the order of the yields
TelemetrySent(c) == SelectSeq(sent[c], IsTelemetry)

\* every frame c's queue has been given so far: those already yielded, then
\* those it still holds
Received(c) == TelemetrySent(c) \o client_queue[c]

\* the frames of the publishes number from + 1 .. from + n, in publish order
PublishedFrames(from, n) == [k \in 1..n |-> message(published[from + k])]

\* the clients the for loop of the running broadcast_data has found full
FoundFull(p) == {sse_clients[i] : i \in Range(disconnected_clients[p])}

\* c was taken out of sse_clients by an eviction
Evicted(c) == "broadcast_data" \in Range(removedBy[c])

Last(q) == q[Len(q)]

-----------------------------------------------------------------------------
\* C1: a registered subscription that no publish has found full has been
\* given exactly one frame for every publish that reached it since it was
\* registered (none lost, none twice), in the order of the publishes.  A
\* publish inside its critical section has reached the clients before its
\* loop index.
C1_PublishesSeen(c) ==
    IF sse_lock # "free" /\ index_of(sse_clients, c) >= scan[sse_lock]
    THEN Len(published) - 1
    ELSE Len(published)

-----------------------------------------------------------------------------
\* C2: a subscription whose queue the loop of a publish finds full is
\* recorded by that publish and is out of sse_clients when the publish
\* leaves its critical section (before it returns); once evicted it never
\* is in sse_clients again and its queue is never given another frame.
C2_FullSubscriptionIsEvictedForGood ==
    [][ /\ \A p \in Producers :
             (ppc[p] = "scan" /\ scan'[p] = scan[p] + 1
                /\ Full(client_queue[sse_clients[scan[p]]]))
                => scan[p] \in Range(disconnected_clients'[p])
        /\ \A p \in Producers :
             (sse_lock = p /\ sse_lock' = "free")
                => /\ ppc[p] = "scan" /\ ppc'[p] = "return"
                   /\ \A c \in FoundFull(p) : c \notin Range(sse_clients')
        /\ \A c \in Clients :
             Evicted(c) => /\ c \notin Range(sse_clients')
                           /\ Received(c)' = Received(c) ]_vars

\* a subscription was evicted and a later publish has run to its end
C2_Witness ==
    \E c \in Clients :
        /\ Evicted(c)
        /\ sse_lock = "free"
        /\ Len(published) >= regAt[c] + Len(Received(c)) + 2

-----------------------------------------------------------------------------
\* C3: no queue ever holds more than QueueMaxsize frames, and a publish
\* inside its loop never waits: its next step (the next put or refusal, or
\* the pops that end it) can always be taken.
C3_QueueWithinCapacityNoWait ==
    /\ \A c \in Clients : Len(client_queue[c]) \in 0..QueueMaxsize
    /\ \A p \in Producers :
          ppc[p] = "scan" => ENABLED (broadcast_put(p) \/ broadcast_evict(p))

\* a publish has gone past a queue that holds QueueMaxsize frames
C3_Witness ==
    \E p \in Producers :
        /\ ppc[p] = "scan"
        /\ \E c \in FoundFull(p) : Len(client_queue[c]) = QueueMaxsize

-----------------------------------------------------------------------------
\* C4: the loop of a publish records a client exactly when its queue is
\* full and appends the frame to every other one; when the publish leaves
\* its critical section exactly the recorded clients have left sse_clients
\* (the others keep their places and hold the frame as their newest), the
\* publish goes on to its return, and the request is answered 200.
C4_Remaining(p) == SelectSeq(sse_clients, LAMBDA c : c \notin FoundFull(p))

C4_OnlyFullSubscriptionsEvicted ==
    [][ /\ \A p \in Producers :
             (ppc[p] = "scan" /\ scan'[p] = scan[p] + 1) =>
                LET c == sse_clients[scan[p]]
                IN  IF Full(client_queue[c])
                    THEN /\ client_queue'[c] = client_queue[c]
                         /\ c \in FoundFull(p)'
                    ELSE /\ client_queue'[c] =
                              Append(client_queue[c], message(req[p].data))
                         /\ c \notin FoundFull(p)'
        /\ \A p \in Producers :
             (sse_lock = p /\ sse_lock' = "free") =>
                /\ sse_clients' = C4_Remaining(p)
                /\ \A c \in Range(C4_Remaining(p)) :
                      /\ Received(c) # <<>>
                      /\ Last(Received(c)) = message(req[p].data)
                /\ ppc'[p] = "return"
        /\ \A p \in Producers :
             (ppc[p] = "return" /\ ppc'[p] # "return") =>
                requests'[req[p].id].status = 200 ]_vars

\* a publish has evicted one subscription and delivered to another one, and
\* is about to return
C4_Witness ==
    \E p \in Producers : \E c, d \in Clients :
        /\ ppc[p] = "return"
        /\ Evicted(c)
        /\ Last(Received(c)) # message(req[p].data)
        /\ d \in Range(sse_clients)
        /\ Received(d) # <<>>
        /\ Last(Received(d)) = message(req[p].data)

-----------------------------------------------------------------------------
-----------------------------------------------------------------------------
\* C6: the finally block of a generator runs exactly once when the try
\* block is left (by GeneratorExit or by any other exception) and not
\* before: it is the one step a generator that left its try block can
\* take, as soon as the lock is free; after it the client is not in
\* sse_clients; and it takes no other client out of the list.
C6_CleanupOnceOnEveryExit ==
    \A c \in Clients :
        /\ cleanups[c] = (IF cpc[c] = "closed" THEN 1 ELSE 0)
        /\ (cpc[c] = "finally" /\ sse_lock = "free") => ENABLED event_stream_finally(c)
        /\ cpc[c] = "closed" => c \notin Range(sse_clients)
        /\ "event_stream" \in Range(removedBy[c]) => cpc[c] = "closed"

\* a generator has ended, its cleanup took it out of the list, and another
\* subscription is still registered
C6_Witness ==
    \E c, d \in Clients :
        /\ cpc[c] = "closed"
        /\ removedBy[c] = <<"event_stream">>
        /\ d \in Range(sse_clients)

-----------------------------------------------------------------------------
\* C7: a subscription leaves sse_clients at most once, whether a publish
\* evicts it, its own cleanup removes it, or both try: the later attempt
\* changes nothing and the generator still ends; the removals account for
\* the size of the list exactly, and a cleanup never costs another
\* subscription its place.
C7_Registered == {c \in Clients : cpc[c] # "new"}
C7_Removed == {c \in Clients : removedBy[c] # <<>>}

C7_RemovalIsIdempotent ==
    /\ \A c \in Clients :
          /\ Len(removedBy[c]) <= 1
          /\ cpc[c] = "closed" => Len(removedBy[c]) = 1
          /\ removedBy[c] = <<"event_stream">> => cpc[c] \in {"closed"}
    /\ Len(sse_clients) + Cardinality(C7_Removed) = Cardinality(C7_Registered)

\* a subscription was evicted by a publish, then its own cleanup ran, while
\* another subscription stayed registered
C7_Witness ==
    \E c, d \in Clients :
        /\ cpc[c] = "closed"
        /\ removedBy[c] = <<"broadcast_data">>
        /\ d \in Range(sse_clients)

-----------------------------------------------------------------------------
\* C8: sse_clients never holds a subscription twice, and whenever no
\* operation is under way (no publish in progress, no cleanup pending) its
\* length is the number of active subscriptions: those that registered,
\* were never removed and whose generator has not ended.
C8_Active ==
    {c \in Clients : cpc[c] \in {"connected", "waiting"} /\ removedBy[c] = <<>>}

C8_Quiescent ==
    /\ sse_lock = "free"
    /\ \A p \in Producers : ppc[p] = "idle"
    /\ \A c \in Clients : cpc[c] # "finally"

C8_RegistryNotCorrupted ==
    /\ Cardinality(Range(sse_clients)) = Len(sse_clients)
    /\ C8_Quiescent =>
          /\ Len(sse_clients) = Cardinality(C8_Active)
          /\ Range(sse_clients) = C8_Active

\* all requests were served by concurrent producers, one subscription was
\* evicted, one has ended and nothing is under way
C8_Witness ==
    /\ C8_Quiescent
    /\ Len(published) = MaxRequests
    /\ published[1].id = 2
    /\ \E c \in Clients : Evicted(c)
    /\ \E c \in Clients : cpc[c] = "closed"

-----------------------------------------------------------------------------
\* C9: sse_clients changes only in a step that holds the lock alone: an
\* append or a removal by a generator, taken while no publish is inside its
\* critical section, or the pops with which a publish leaves its critical
\* section.  While a publish holds the lock the list does not change, and
\* every queue that is given a frame belongs to a client in the list.
C9_RegistryMutuallyExclusive ==
    [][ /\ (sse_lock \in Producers /\ sse_lock' = sse_lock)
              => sse_clients' = sse_clients
        /\ sse_clients' # sse_clients
              => \/ sse_lock = "free" /\ sse_lock' = "free"
                 \/ sse_lock \in Producers /\ sse_lock' = "free"
        /\ (sse_lock = "free" /\ sse_lock' \in Producers)
              => sse_clients' = sse_clients
        /\ \A c \in Clients :
              Len(client_queue'[c]) > Len(client_queue[c])
                 => /\ sse_lock \in Producers /\ sse_lock' = sse_lock
                    /\ c \in Range(sse_clients) ]_vars

\* a publish is in the middle of its loop while one generator waits to
\* register and another waits to run its cleanup
C9_Witness ==
    \E p \in Producers : \E c, d \in Clients :
        /\ sse_lock = p
        /\ scan[p] = 2
        /\ cpc[c] = "finally"
        /\ c \in Range(sse_clients)
        /\ cpc[d] = "new"

-----------------------------------------------------------------------------
\* C10: a request whose body is not valid JSON is answered 400 and is not
\* published.
C10_InvalidJsonAnswered400 ==
    \A r \in 1..Len(requests) :
        requests[r].body = "not json" =>
            /\ requests[r].status = 400
            /\ \A k \in 1..Len(published) : published[k].id # r

-----------------------------------------------------------------------------
\* the number of publishes (entries into the critical section of
\* broadcast_data) made for request r
RECURSIVE PublishesOf(_, _)
PublishesOf(r, k) ==
    IF k = 0 THEN 0
    ELSE (IF published[k].id = r THEN 1 ELSE 0) + PublishesOf(r, k - 1)

\* request r is inside broadcast_data, or about to call it
Publishing(r) == \E p \in Producers : req[p].id = r /\ ppc[p] \in {"broadcast", "scan"}

\* C11: a request whose body is JSON but not an object is rejected: once
\* answered its status is 400, and it is never published.
C11_NonObjectJsonRejected ==
    \A r \in 1..Len(requests) :
        requests[r].body = "array" =>
            /\ requests[r].status \in {0, 400}
            /\ PublishesOf(r, Len(published)) = 0

-----------------------------------------------------------------------------
\* C12: no request is published more than once; a request answered 200 was
\* published exactly once and its publish had left broadcast_data before
\* the answer; a request answered 400 or 500 was not published.
C12_OnePublishPerSuccess ==
    \A r \in 1..Len(requests) :
        LET n == PublishesOf(r, Len(published))
        IN  /\ n <= 1
            /\ requests[r].status = 200 => (n = 1 /\ ~Publishing(r))
            /\ requests[r].status \in {400, 500} => (n = 0 /\ ~Publishing(r))
            /\ requests[r].status \in {0, 200, 400, 500}

\* one request was answered 200 after its publish, one 400 and one 500
C12_Witness ==
    /\ \E r \in 1..Len(requests) :
          requests[r].status = 200 /\ PublishesOf(r, Len(published)) = 1
    /\ \E r \in 1..Len(requests) : requests[r].status \in {400, 500}

-----------------------------------------------------------------------------
\* The send loops keep being scheduled: a generator that can yield its
\* connection message or a queued message eventually does (unless it is
\* closed first, which disables the yield).
SendLoopFairness ==
    \A c \in Clients : WF_vars(yield_connected(c)) /\ WF_vars(yield_message(c))

\* One handler thread publishing JSON objects to both clients.
NextSingle ==
    \/ receive_data("p1", {"object"}, MaxRequests)
    \/ broadcast_enter("p1")
    \/ broadcast_put("p1")
    \/ broadcast_evict("p1")
    \/ receive_data_return("p1")
    \/ \E c \in Clients : event_stream_start(c)
    \/ \E c \in Clients : yield_connected(c)
    \/ \E c \in Clients : yield_message(c)
    \/ \E c \in Clients : yield_keep_alive(c)
    \/ \E c \in Clients : event_stream_close(c)
    \/ \E c \in Clients : event_stream_raise(c)
    \/ \E c \in Clients : event_stream_finally(c)

SpecSendLoop == Init /\ [][NextSingle]_vars /\ SendLoopFairness

\* the frame of the JSON object of request r
ObjectFrame(r) == message([shape |-> "object", id |-> r])

\* C13: every frame a publish has put on the queue of a subscription is
\* eventually yielded to the viewer by the send loop, or the generator is
\* closed first.
C13_BufferedFrameEventuallySent ==
    \A c \in Clients : \A r \in 1..MaxRequests :
        (ObjectFrame(r) \in Range(client_queue[c]))
            ~> (ObjectFrame(r) \in Range(sent[c]) \/ cpc[c] \in {"finally", "closed"})

\* a request was answered 200 and both subscriptions were sent its frame
C13_Witness ==
    \E r \in 1..Len(requests) :
        /\ requests[r].status = 200
        /\ \A c \in Clients : ObjectFrame(r) \in Range(sent[c]) /\ cpc[c] = "waiting"

-----------------------------------------------------------------------------
\* The handler threads keep being scheduled and the lock is fair: a thread
\* that finds the lock free again and again eventually enters.  Nothing is
\* assumed about the generators: they may stop for good at any point.
PublisherFairness ==
    \A p \in Producers :
        /\ SF_vars(broadcast_enter(p))
        /\ WF_vars(broadcast_put(p))
        /\ WF_vars(broadcast_evict(p))
        /\ WF_vars(receive_data_return(p))

\* Both handler threads, contending for the lock, and one client.
NextContended ==
    \/ \E p \in Producers : receive_data(p, {"object"}, MaxRequests)
    \/ \E p \in Producers : broadcast_enter(p)
    \/ \E p \in Producers : broadcast_put(p)
    \/ \E p \in Producers : broadcast_evict(p)
    \/ \E p \in Producers : receive_data_return(p)
    \/ event_stream_start("c1")
    \/ yield_connected("c1")
    \/ yield_message("c1")
    \/ yield_keep_alive("c1")
    \/ event_stream_close("c1")
    \/ event_stream_raise("c1")
    \/ event_stream_finally("c1")

SpecPublisher == Init /\ [][NextContended]_vars /\ PublisherFairness

\* C14: every request that was received is eventually answered, whatever
\* the send loops do and however many queues are full.
C14_EveryRequestAnswered ==
    \A r \in 1..MaxRequests :
        (Len(requests) >= r /\ requests[r].status = 0)
            ~> (Len(requests) >= r /\ requests[r].status # 0)

\* all requests were answered, the second one having taken the lock ahead of
\* the first, although the generator never yielded a frame and its queue was
\* found full
C14_Witness ==
    /\ Len(requests) = MaxRequests
    /\ \A r \in 1..Len(requests) : requests[r].status = 200
    /\ published[1].id # 1
    /\ \E c \in Clients : sent[c] = <<>> /\ Evicted(c)

-----------------------------------------------------------------------------
\* C15: the first frame a generator yields is the connected message; it is
\* yielded exactly once, nothing is yielded before it (whatever broadcast_data
\* has put in the queue since the client was appended to sse_clients), and
\* every message frame and keep-alive of the client comes after it.
C15_ConnectedFrameFirstAndOnce ==
    \A c \in Clients :
        /\ cpc[c] \in {"new", "connected"} => sent[c] = <<>>
        /\ cpc[c] \in {"waiting", "finally", "closed"} => sent[c] # <<>>
        /\ sent[c] # <<>> =>
              /\ sent[c][1] = connected_message
              /\ \A i \in 2..Len(sent[c]) : sent[c][i] # connected_message

\* one client has been yielded the connected message, then a message frame and
\* a keep-alive, while another one, registered but not yet yielded anything,
\* already has a published frame in its queue
C15_Witness ==
    \E c, d \in Clients :
        /\ Len(sent[c]) = 3
        /\ sent[c][1] = connected_message
        /\ keep_alive \in Range(sent[c])
        /\ TelemetrySent(c) # <<>>
        /\ cpc[d] = "connected"
        /\ sent[d] = <<>>
        /\ client_queue[d] # <<>>

-----------------------------------------------------------------------------
\* C16: a generator yields the keep-alive only when get(timeout=30) found its
\* queue empty, and then the queue is left as it was; a message frame it
\* yields is the head of its queue and the frame of a published event; a
\* waiting generator whose queue is empty yields nothing but the keep-alive.
C16_YieldsOneFrame ==
    \A c \in Clients :
        sent'[c] # sent[c] =>
            LET frame == Last(sent'[c])
            IN  /\ sent'[c] = Append(sent[c], frame)
                /\ frame = keep_alive =>
                      /\ cpc[c] = "waiting"
                      /\ client_queue[c] = <<>>
                      /\ client_queue'[c] = <<>>
                /\ IsTelemetry(frame) =>
                      /\ client_queue[c] # <<>>
                      /\ frame = Head(client_queue[c])
                      /\ \E k \in 1..Len(published) : frame = message(published[k])
                /\ (cpc[c] = "waiting" /\ client_queue[c] = <<>>) => frame = keep_alive
                /\ frame = keep_alive \/ frame = connected_message \/ IsTelemetry(frame)

C16_KeepAliveOnlyWhenIdle == [][C16_YieldsOneFrame]_vars

\* a client connected before any publish was yielded the keep-alive first and
\* the frame of the first published event after it
C16_Witness ==
    \E c \in Clients :
        /\ Len(published) >= 1
        /\ sent[c] = <<connected_message, keep_alive, message(published[1])>>

-----------------------------------------------------------------------------
\* C17: once a generator has left its loop, by GeneratorExit (the viewer is
\* gone or a send to it failed) or by any other exception, it yields no
\* further frame and never returns to the loop; what its queue still holds
\* stays there; once it has run finally it stays closed and its client is
\* never in sse_clients again.
C17_NoStepBack ==
    \A c \in Clients :
        /\ cpc[c] \in {"finally", "closed"} =>
              /\ sent'[c] = sent[c]
              /\ cpc'[c] \in {"finally", "closed"}
              /\ Len(client_queue'[c]) >= Len(client_queue[c])
              /\ c \notin Range(sse_clients) => c \notin Range(sse_clients')
        /\ cpc[c] = "closed" =>
              /\ cpc'[c] = "closed"
              /\ c \notin Range(sse_clients')

C17_ClosedIsTerminal == [][C17_NoStepBack]_vars

\* a generator has closed with a published frame still in its queue, and a
\* later publish has gone by without its client
C17_Witness ==
    \E c \in Clients :
        /\ cpc[c] = "closed"
        /\ client_queue[c] # <<>>
        /\ c \notin Range(sse_clients)
        /\ Len(published) > regAt[c] + Len(Received(c))
        /\ sse_lock = "free"

-----------------------------------------------------------------------------
\* C18: a client's queue starts empty, and no frame it is ever given is the
\* frame of an event that broadcast_data had finished publishing before the
\* client was appended to sse_clients.
C18_NoReplayForLateJoiners ==
    \A c \in Clients :
        /\ cpc[c] = "new" => client_queue[c] = <<>> /\ c \notin Range(sse_clients)
        /\ cpc[c] = "connected" /\ Len(published) = regAt[c] => client_queue[c] = <<>>
        /\ cpc[c] # "new" =>
              \A i \in 1..Len(Received(c)) : \A k \in 1..regAt[c] :
                  Received(c)[i] # message(published[k])

\* a client that joined after the first publish had finished has been given
\* the frame of a later publish
C18_Witness ==
    \E c \in Clients :
        /\ regAt[c] >= 1
        /\ Received(c) # <<>>
        /\ Received(c)[1] = message(published[regAt[c] + 1])

-----------------------------------------------------------------------------
\* C19: the step in which event_stream registers a client appends that one
\* client, which was not in sse_clients, to the end of the list, so that the
\* list is one longer and the others keep their places; the new queue is
\* empty and below its maxsize; no queue's contents change; and sse_clients
\* never grows in any other step.
C19_Subscribes(c) == cpc[c] = "new" /\ cpc'[c] # "new"

C19_SubscribeFrame ==
    /\ \A c \in Clients :
          C19_Subscribes(c) =>
              /\ c \notin Range(sse_clients)
              /\ Len(sse_clients') = Len(sse_clients) + 1
              /\ sse_clients' = Append(sse_clients, c)
              /\ client_queue'[c] = <<>>
              /\ ~Full(client_queue'[c])
              /\ client_queue' = client_queue
              /\ \A d \in Clients \ {c} : cpc'[d] = cpc[d] /\ sent'[d] = sent[d]
    /\ Len(sse_clients') > Len(sse_clients) => \E c \in Clients : C19_Subscribes(c)

C19_SubscribeAddsExactlyOne == [][C19_SubscribeFrame]_vars

\* a client has been registered behind another one whose queue held a frame
C19_Witness ==
    \E c, d \in Clients :
        /\ sse_clients = <<c, d>>
        /\ client_queue[c] # <<>>
        /\ cpc[d] = "connected"
        /\ regAt[d] = Len(published)
        /\ regAt[d] > regAt[c]
        /\ client_queue[d] = <<>>

-----------------------------------------------------------------------------
\* C20: a client leaves sse_clients only in the step in which a running
\* broadcast_data pops the clients whose queue its loop found full, the
\* client being one of them, or in the finally step of its own generator;
\* in every other step (a keep-alive, a yield, a request that is refused,
\* another client's registration or cleanup) every client in the list stays.
C20_Leaves(c) == c \in Range(sse_clients) /\ c \notin Range(sse_clients')

C20_RemovalFrame ==
    \A c \in Clients :
        C20_Leaves(c) =>
            \/ \E p \in Producers :
                  /\ sse_lock = p
                  /\ ppc[p] = "scan" /\ ppc'[p] = "return"
                  /\ c \in FoundFull(p)
            \/ cpc[c] = "finally" /\ cpc'[c] = "closed"

C20_RemovedOnlyByEvictionOrOwnExit == [][C20_RemovalFrame]_vars

\* one client was taken out by an eviction and the other, never found full,
\* by its own cleanup, a published frame still in its queue
C20_Witness ==
    \E c, d \in Clients :
        /\ removedBy[c] = <<"broadcast_data">>
        /\ removedBy[d] = <<"event_stream">>
        /\ cpc[d] = "closed"
        /\ client_queue[d] # <<>>
        /\ sent[d] = <<connected_message>>

-----------------------------------------------------------------------------
\* C21: a client's queue changes in two ways only: the for loop of a running
\* broadcast_data puts the message of its event at the end, the client being
\* the one at the loop's index, or the client's own generator takes the head
\* and yields it.  The step in which broadcast_data pops clients leaves every
\* queue as it is, and no queue ever holds the connected message or the
\* keep-alive.
C21_Puts(c) ==
    \E p \in Producers :
        /\ sse_lock = p
        /\ ppc[p] = "scan"
        /\ scan[p] <= Len(sse_clients)
        /\ sse_clients[scan[p]] = c
        /\ client_queue'[c] = Append(client_queue[c], message(req[p].data))

C21_Gets(c) ==
    /\ cpc[c] = "waiting"
    /\ client_queue[c] # <<>>
    /\ client_queue'[c] = Tail(client_queue[c])
    /\ sent'[c] = Append(sent[c], Head(client_queue[c]))

C21_QueueFrame ==
    /\ \A c \in Clients :
          client_queue'[c] # client_queue[c] => C21_Puts(c) \/ C21_Gets(c)
    /\ (\E p \in Producers : ppc[p] = "scan" /\ ppc'[p] = "return") =>
          client_queue' = client_queue
    /\ \A c \in Clients : \A i \in 1..Len(client_queue[c]) :
          /\ IsTelemetry(client_queue[c][i])
          /\ client_queue[c][i] # connected_message
          /\ client_queue[c][i] # keep_alive

C21_OneProducerOneConsumer == [][C21_QueueFrame]_vars

\* a client was popped by broadcast_data while its queue held a frame, and
\* the frame is still there; its generator has yielded the connected message
\* and a keep-alive, none of which went through the queue
C21_Witness ==
    \E c \in Clients :
        /\ Evicted(c)
        /\ cpc[c] = "waiting"
        /\ client_queue[c] # <<>>
        /\ keep_alive \in Range(sent[c])
        /\ sse_lock = "free"

-----------------------------------------------------------------------------
\* C22: the step in which broadcast_data pops a client changes nothing of
\* that client's generator: its position, its queue and what it has yielded
\* stay as they were.  Afterwards the generator, if it was in its loop, is
\* still able to yield what its queue holds and, the queue being empty, the
\* keep-alive; its queue is never put to again.
C22_PoppedNow(c) ==
    /\ c \in Range(sse_clients)
    /\ c \notin Range(sse_clients')
    /\ \E p \in Producers : ppc[p] = "scan" /\ ppc'[p] = "return"

C22_EvictionFrame ==
    \A c \in Clients :
        /\ C22_PoppedNow(c) =>
              /\ cpc'[c] = cpc[c]
              /\ sent'[c] = sent[c]
              /\ client_queue'[c] = client_queue[c]
        /\ Evicted(c) =>
              /\ c \notin Range(sse_clients)
              /\ Len(client_queue'[c]) <= Len(client_queue[c])
              /\ cpc[c] = "waiting" /\ client_queue[c] # <<>> =>
                    ENABLED yield_message(c)
              /\ cpc[c] = "waiting" /\ client_queue[c] = <<>>
                   /\ KeepAlivesSent < MaxKeepAlive =>
                    ENABLED yield_keep_alive(c)
              /\ cpc'[c] # cpc[c] =>
                    \/ cpc[c] = "connected" /\ sent'[c] = <<connected_message>>
                    \/ cpc[c] = "waiting" /\ cpc'[c] = "finally"
                    \/ cpc[c] = "finally" /\ cpc'[c] = "closed"

C22_EvictionDoesNotStopTheLoop == [][C22_EvictionFrame]_vars

\* a client outside sse_clients whose generator is still in its loop: after
\* it was popped it has yielded the frame its queue held and then the
\* keep-alive, and a later publish has gone by without it
C22_Witness ==
    \E c \in Clients :
        /\ Evicted(c)
        /\ c \notin Range(sse_clients)
        /\ cpc[c] = "waiting"
        /\ client_queue[c] = <<>>
        /\ Len(published) >= regAt[c] + 3
        /\ sent[c] = <<connected_message, message(published[regAt[c] + 1]), keep_alive>>

-----------------------------------------------------------------------------
\* C23: the frames a client's queue has been given are those of consecutive
\* publishes, beginning with the first publish that entered its critical
\* section after the client was appended to sse_clients: the i-th frame is
\* the frame of publish number regAt + i.  A client that has missed a
\* publish that has ended is no longer in sse_clients, so it is given none
\* of the later ones.
C23_GapFreeRun ==
    \A c \in Clients :
        /\ regAt[c] + Len(Received(c)) <= Len(published)
        /\ \A i \in 1..Len(Received(c)) :
              Received(c)[i] = message(published[regAt[c] + i])
        /\ (cpc[c] # "new" /\ sse_lock = "free"
              /\ regAt[c] + Len(Received(c)) < Len(published)) =>
                 c \notin Range(sse_clients)

\* a client was given the first frame after its registration, missed the
\* next publish because its queue was full, has room again, and was given
\* nothing by the publish after that
C23_Witness ==
    \E c \in Clients :
        /\ Evicted(c)
        /\ Len(Received(c)) = 1
        /\ client_queue[c] = <<>>
        /\ sse_lock = "free"
        /\ Len(published) = regAt[c] + 3
        /\ requests[Len(published)].status = 200

-----------------------------------------------------------------------------
\* Both handler threads and both clients, the generators staying in their
\* loops: the order of the frames does not depend on keep-alives or exits.
NextOrder ==
    \/ \E p \in Producers : receive_data(p, {"object"}, MaxRequests)
    \/ \E p \in Producers : broadcast_enter(p)
    \/ \E p \in Producers : broadcast_put(p)
    \/ \E p \in Producers : broadcast_evict(p)
    \/ \E p \in Producers : receive_data_return(p)
    \/ \E c \in Clients : event_stream_start(c)
    \/ \E c \in Clients : yield_connected(c)
    \/ \E c \in Clients : yield_message(c)

SpecOrder == Init /\ [][NextOrder]_vars

-----------------------------------------------------------------------------
\* C25: sse_clients never holds a client twice; a client in it has been
\* appended by its generator and has been removed neither by a publish nor
\* by its own cleanup; and no client is ever given two frames of the same
\* publish.
C25_RegistryIsASet ==
    /\ \A i, j \in 1..Len(sse_clients) :
          i # j => sse_clients[i] # sse_clients[j]
    /\ \A c \in Range(sse_clients) :
          /\ cpc[c] \in {"connected", "waiting", "finally"}
          /\ removedBy[c] = <<>>
          /\ cleanups[c] = 0
    /\ \A c \in Clients :
          \A i, j \in 1..Len(Received(c)) :
              i # j => Received(c)[i] # Received(c)[j]
    /\ \A c \in Clients : \A k \in 1..Len(published) :
          Cardinality({i \in 1..Len(Received(c)) :
                          Received(c)[i] = message(published[k])}) <= 1

\* a publish has run to its end with both clients in the list, each of them
\* given its frame once, and one of the clients has since left the list
C25_Witness ==
    \E c, d \in Clients :
        /\ sse_lock = "free"
        /\ Len(published) = 1
        /\ Received(c) = <<message(published[1])>>
        /\ Received(d) = <<message(published[1])>>
        /\ sse_clients = <<c>>
        /\ removedBy[d] = <<"event_stream">>

-----------------------------------------------------------------------------
(* src/launcher.py: get_role and main                                       *)

\* A text is the sequence of its characters.
Whitespace == {" ", "\n", "\t"}

Dev == <<"d", "e", "v">>
Car == <<"c", "a", "r">>
Ground == <<"g", "r", "o", "u", "n", "d">>
Unknown == <<"u", "n", "k", "n", "o", "w", "n">>
Plane == <<"p", "l", "a", "n", "e">>

\* the value None of app_type
None == <<"None">>

\* faulty variant: the text is taken as it is
strip_nothing(s) == s

\* str.strip(): leading and trailing whitespace is removed
RECURSIVE lstrip(_)
lstrip(s) == IF s # <<>> /\ Head(s) \in Whitespace THEN lstrip(Tail(s)) ELSE s

RECURSIVE rstrip(_)
rstrip(s) ==
    IF s # <<>> /\ s[Len(s)] \in Whitespace THEN rstrip(SubSeq(s, 1, Len(s) - 1)) ELSE s

strip(s) == rstrip(lstrip(s))

\* str.lower(), for the letters of the role names
LowerCase ==
    ("A" :> "a") @@ ("C" :> "c") @@ ("D" :> "d") @@ ("E" :> "e") @@ ("G" :> "g")
    @@ ("N" :> "n") @@ ("O" :> "o") @@ ("R" :> "r") @@ ("U" :> "u") @@ ("V" :> "v")

lower(s) == [i \in 1..Len(s) |-> IF s[i] \in DOMAIN LowerCase THEN LowerCase[s[i]] ELSE s[i]]

\* str.startswith
startswith(s, prefix) ==
    Len(s) >= Len(prefix) /\ SubSeq(s, 1, Len(prefix)) = prefix

\* str.split(sep, 1): split at the first sep, if there is one
split(s, sep) ==
    IF \E i \in 1..Len(s) : s[i] = sep
    THEN LET k == CHOOSE i \in 1..Len(s) : s[i] = sep /\ \A j \in 1..(i - 1) : s[j] # sep
         IN  <<SubSeq(s, 1, k - 1), SubSeq(s, k + 1, Len(s))>>
    ELSE <<s>>

\* get_role, the local part: the (role, app_type) it returns, or nothing when
\* the local file is missing, cannot be read or holds something else
NoLocalRole == [found |-> FALSE, role |-> <<>>, app_type |-> None]

local_role(file) ==
    IF file.kind = "missing" THEN NoLocalRole
    ELSE IF file.kind = "error" THEN NoLocalRole
    ELSE LET content == lower(strip(file.text))
         IN  IF startswith(content, Dev \o <<":">>)
             THEN LET parts == split(content, ":")
                  IN  IF Len(parts) = 2 /\ parts[2] \in {Car, Ground}
                      THEN [found |-> TRUE, role |-> Dev, app_type |-> parts[2]]
                      ELSE NoLocalRole
             ELSE IF content = Dev
             THEN [found |-> TRUE, role |-> Dev, app_type |-> Ground]
             ELSE NoLocalRole

\* The local role files of the runs: missing, unreadable, or a text together
\* with what it says to a reader (a role line, or something else).
RoleFile(text, says) == [kind |-> "text", text |-> text, says |-> says]

LocalRoleFiles ==
    { [kind |-> "missing"], [kind |-> "error"],
      RoleFile(Dev \o <<":">> \o Car, "dev:car"),
      RoleFile(<<"D", "E", "V", ":", "C", "a", "r", "\n">>, "dev:car"),
      RoleFile(<<" ">> \o Dev \o <<":">> \o Ground \o <<" ", "\n">>, "dev:ground"),
      RoleFile(Dev, "dev"),
      RoleFile(<<"D", "e", "v", "\n">>, "dev"),
      RoleFile(Dev \o <<":">>, "other"),
      RoleFile(Dev \o <<":">> \o Plane, "other"),
      RoleFile(Dev \o <<":">> \o Car \o <<":">> \o Ground, "other"),
      RoleFile(Dev \o <<":", " ">> \o Car, "other"),
      RoleFile(Dev \o Car, "other"),
      RoleFile(Car, "other"),
      RoleFile(<<>>, "other") }

\* The production role files of the runs: missing (FileNotFoundError),
\* unreadable (any other error), or a text together with the role it says.
ProdRoleFiles ==
    { [kind |-> "missing"], [kind |-> "error"],
      RoleFile(Car, Car),
      RoleFile(<<" ", "C", "A", "R", " ">>, Car),
      RoleFile(<<"G", "r", "o", "u", "n", "d", "\n">>, Ground),
      RoleFile(Dev, Dev),
      RoleFile(Dev \o <<":">> \o Car, Dev \o <<":">> \o Car),
      RoleFile(Plane \o <<"\n">>, Plane),
      RoleFile(<<"\n">>, <<>>) }

InitLauncher ==
    /\ InitHub
    /\ ObdOff
    /\ local_role_file \in LocalRoleFiles
    /\ prod_role_file \in ProdRoleFiles
    /\ lpc = "get_role"
    /\ role = <<>>
    /\ app_type = None
    /\ app_main = "none"
    /\ exit_status = 0

\* get_role, lines 17-29: the local role file
get_role_local ==
    /\ lpc = "get_role"
    /\ LET got == local_role(local_role_file)
       IN  IF got.found
           THEN /\ role' = got.role
                /\ app_type' = got.app_type
                /\ lpc' = "main"
           ELSE /\ lpc' = "fallback"
                /\ UNCHANGED <<role, app_type>>
    /\ UNCHANGED <<local_role_file, prod_role_file, app_main, exit_status>>
    /\ UNCHANGED <<hubVars, obdVars>>

\* get_role, lines 32-36: the production role file.  An error other than
\* FileNotFoundError is not caught, neither here nor in main: the process
\* ends with the traceback and status 1.
get_role_prod ==
    /\ lpc = "fallback"
    /\ IF prod_role_file.kind = "text"
       THEN /\ role' = lower(strip(prod_role_file.text))
            /\ app_type' = None
            /\ lpc' = "main"
            /\ UNCHANGED exit_status
       ELSE IF prod_role_file.kind = "missing"
       THEN /\ role' = Unknown
            /\ app_type' = None
            /\ lpc' = "main"
            /\ UNCHANGED exit_status
       ELSE /\ lpc' = "exited"
            /\ exit_status' = 1
            /\ UNCHANGED <<role, app_type>>
    /\ UNCHANGED <<local_role_file, prod_role_file, app_main>>
    /\ UNCHANGED <<hubVars, obdVars>>

\* main, lines 47-64: the import that role and app_type select, and the call
\* of app_main, or sys.exit(1)
main ==
    /\ lpc = "main"
    /\ IF role = Car
       THEN lpc' = "app_main" /\ app_main' = "car" /\ UNCHANGED exit_status
       ELSE IF role = Ground
       THEN lpc' = "app_main" /\ app_main' = "ground" /\ UNCHANGED exit_status
       ELSE IF role = Dev
       THEN IF app_type = Car
            THEN lpc' = "app_main" /\ app_main' = "car" /\ UNCHANGED exit_status
            ELSE IF app_type = Ground
            THEN lpc' = "app_main" /\ app_main' = "ground" /\ UNCHANGED exit_status
            ELSE lpc' = "exited" /\ exit_status' = 1 /\ UNCHANGED app_main
       ELSE lpc' = "exited" /\ exit_status' = 1 /\ UNCHANGED app_main
    /\ UNCHANGED <<local_role_file, prod_role_file, role, app_type>>
    /\ UNCHANGED <<hubVars, obdVars>>

NextLauncher ==
    \/ get_role_local
    \/ get_role_prod
    \/ main

SpecLauncher == InitLauncher /\ [][NextLauncher]_vars

-----------------------------------------------------------------------------
\* C26: get_role returns (dev, car) or (dev, ground) for a local role file
\* that says so and (dev, ground) for one that says dev; for a local file
\* that is missing, unreadable or says anything else it returns the role the
\* production file says, with app type None, and (unknown, None) when the
\* production file is missing.  main calls an application's main exactly for
\* role car, role ground and role dev with app type car or ground, the
\* application being the one named; in every other case the process exits
\* with status 1.
C26_LocalSays(what) ==
    local_role_file.kind = "text" /\ local_role_file.says = what

C26_FallsBack ==
    local_role_file.kind \in {"missing", "error"} \/ C26_LocalSays("other")

-----------------------------------------------------------------------------
(* src/car.py: connect_obd                                                  *)

\* The argument port: None, the empty string, or a path.  The paths
\* /dev/ttyUSB0 and /dev/pts/0 exist; for the second, a virtual port,
\* connect_obd sleeps one second before the first attempt.
Ports == {"None", "", "/dev/ttyUSB0", "/dev/pts/0", "/dev/ttyUSB9"}
ExistingPorts == {"/dev/ttyUSB0", "/dev/pts/0"}

\* The argument baudrate: <<>> for None, <<b>> for the integer b.
Baudrates == {<<>>, <<0>>, <<9600>>, <<57600>>}

\* `if port:` and `if baudrate`: None, "" and 0 are false
port_given(p) == p # "None" /\ p # ""
baudrate_given(b) == b # <<>> /\ b[1] # 0

\* what obd.OBD(...) does: it raises, or it returns a connection whose
\* is_connected() is False or True.  protocol_name() and supported_commands
\* of a connected connection do not raise.
Outcomes == {"raises", "not connected", "connected"}
AdapterBauds == {38400, 9600, 115200, 57600}
Adapters == [auto : Outcomes, at : [AdapterBauds -> Outcomes]]

\* the return values of connect_obd: None, or the connection made
NoConnection == [connected |-> FALSE, baudrate |-> 0]
Connection(baud) == [connected |-> TRUE, baudrate |-> baud]

InitObd ==
    /\ InitHub
    /\ LauncherOff
    /\ port \in Ports
    /\ baudrate \in Baudrates
    /\ adapter \in Adapters
    /\ opc = "call"
    /\ baudrates_to_try = <<>>
    /\ tried = <<>>
    /\ connection = NoConnection

\* lines 33-47: the port check and the list of baud rates
connect_obd_port ==
    /\ opc = "call"
    /\ IF port_given(port)
       THEN IF port \notin ExistingPorts
            THEN /\ opc' = "returned"
                 /\ UNCHANGED baudrates_to_try
            ELSE /\ baudrates_to_try' =
                       IF baudrate_given(baudrate) THEN <<baudrate[1]>>
                       ELSE <<38400, 9600, 115200>>
                 /\ opc' = "for"
       ELSE /\ opc' = "auto"
            /\ UNCHANGED baudrates_to_try
    /\ UNCHANGED <<port, baudrate, adapter, tried, connection>>
    /\ UNCHANGED <<hubVars, launcherVars>>

\* faulty variant: an attempt that raises ends the function
obd_attempt_abort ==
    /\ opc = "for"
    /\ Len(tried) < Len(baudrates_to_try)
    /\ LET baud == baudrates_to_try[Len(tried) + 1]
       IN  /\ tried' = Append(tried, baud)
           /\ IF adapter.at[baud] = "connected"
              THEN connection' = Connection(baud) /\ opc' = "returned"
              ELSE IF adapter.at[baud] = "raises"
              THEN opc' = "returned" /\ UNCHANGED connection
              ELSE UNCHANGED <<connection, opc>>
    /\ UNCHANGED <<port, baudrate, adapter, baudrates_to_try>>
    /\ UNCHANGED <<hubVars, launcherVars>>

\* lines 49-64: one iteration of `for baud in baudrates_to_try`; the
\* iterator stands behind the baud rates tried so far
obd_attempt ==
    /\ opc = "for"
    /\ Len(tried) < Len(baudrates_to_try)
    /\ LET baud == baudrates_to_try[Len(tried) + 1]
       IN  /\ tried' = Append(tried, baud)
           /\ IF adapter.at[baud] = "connected"
              THEN connection' = Connection(baud) /\ opc' = "returned"
              ELSE UNCHANGED <<connection, opc>>
    /\ UNCHANGED <<port, baudrate, adapter, baudrates_to_try>>
    /\ UNCHANGED <<hubVars, launcherVars>>

\* lines 66-67: the list is exhausted
connect_obd_failed ==
    /\ opc = "for"
    /\ Len(tried) = Len(baudrates_to_try)
    /\ connection' = NoConnection
    /\ opc' = "returned"
    /\ UNCHANGED <<port, baudrate, adapter, baudrates_to_try, tried>>
    /\ UNCHANGED <<hubVars, launcherVars>>

\* lines 69-82: auto-detection, one attempt without port and baud rate
connect_obd_auto ==
    /\ opc = "auto"
    /\ connection' = IF adapter.auto = "connected" THEN Connection(0) ELSE NoConnection
    /\ opc' = "returned"
    /\ UNCHANGED <<port, baudrate, adapter, baudrates_to_try, tried>>
    /\ UNCHANGED <<hubVars, launcherVars>>

NextObd ==
    \/ connect_obd_port
    \/ obd_attempt
    \/ connect_obd_failed
    \/ connect_obd_auto

\* connect_obd is one sequential call: it goes on while it has a next step
SpecObd == InitObd /\ [][NextObd]_vars /\ WF_vars(NextObd)

-----------------------------------------------------------------------------
\* C27: called with a port that exists, connect_obd calls obd.OBD with the
\* baud rates 38400, 9600, 115200 in this order, or with the requested baud
\* rate only; an attempt that raises or is not connected is followed by the
\* next baud rate; the first attempt that is connected ends the function,
\* which returns that connection; when the list is exhausted it returns
\* None; and the function always returns.
C27_Order ==
    IF baudrate \in {<<>>, <<0>>} THEN <<38400, 9600, 115200>> ELSE baudrate

C27_Attempts ==
    port \in ExistingPorts =>
        /\ Len(tried) <= Len(C27_Order)
        /\ \A i \in 1..Len(tried) : tried[i] = C27_Order[i]
        /\ \A i \in 1..(Len(tried) - 1) : adapter.at[tried[i]] # "connected"
        /\ (opc = "for" /\ tried # <<>>) => adapter.at[Last(tried)] # "connected"
        /\ opc = "returned" =>
              \/ /\ connection.connected
                 /\ tried # <<>>
                 /\ connection = Connection(Last(tried))
                 /\ adapter.at[Last(tried)] = "connected"
              \/ /\ connection = NoConnection
                 /\ tried = C27_Order
                 /\ \A i \in 1..Len(tried) : adapter.at[tried[i]] # "connected"

=============================================================================
